---- MODULE Spec2Model ----
(***************************************************************************)
(* A model of the evidence-traced RAG core of the IP2M METRR Copilot:      *)
(* VectorStore (packages/rag/src/vector-store.ts), OllamaClient            *)
(* (packages/rag/src/ollama-client.ts) and RAGPipeline                     *)
(* (packages/rag/src/rag-pipeline.ts).                                     *)
(*                                                                         *)
(* Conventions.  Scores are fixed-point numbers in units of 1/Scale.  A    *)
(* chunk id (crypto.randomUUID() in createChunk) is the pair               *)
(* <<documentId, chunkIndex>>, which is unique as a UUID is.  An optional  *)
(* field is None (undefined / NULL) or Some(v).                            *)
(***************************************************************************)
EXTENDS Integers, Sequences, FiniteSets, TLC

(* ------------------------------ bounds -------------------------------- *)
\* concurrent ingestion calls
NumProcs == 2
\* documents ever ingested (document ids handed out by randomUUID)
MaxDocs == 2
\* chunks chunkText returns for one document
MaxChunks == 2
\* largest topK asked of searchSimilar
MaxTopK == 2
\* fixed-point unit of scores and distances
Scale == 100

None == <<>>
Some(v) == <<v>>
IsSome(o) == o # <<>>
Val(o) == o[1]
Procs == 1..NumProcs
DocIds == 1..MaxDocs
\* sourcePathOrUrl of document d: every upload is stored under a file name of
\* its own; path 0 is a path no document has
SourcePath(d) == <<"path", d>>
\* vectors the embedding model returns (config.embeddingDimension = 2)
Embeddings == {<<1, 0>>, <<0, 1>>, <<-1, 0>>}
\* a question may also embed to a vector of another length (a changed model)
QueryEmbeddings == Embeddings \cup {<<1, 1>>, <<0, 0>>, <<1>>}

VARIABLES
  table,        \* document_embeddings: the committed rows, in rowid order
  vecIndex,     \* vec_embeddings: the committed index entries [id, embedding]
  vecAvailable, \* did loadVectorExtension succeed for this connection
  txn,          \* the open write transaction (its working copy), or NoTxn
  ing,          \* the ingestFile / ingestURL calls in progress
  usedDocs,     \* document ids already handed out
  deleted,      \* document ids whose deleteDocument call has returned
  search,       \* the outcome of the last direct searchSimilar call
  gen,          \* the generateEvidenceTracedResponse call in progress
  qry,          \* the RAGPipeline.query call in progress
  emb,          \* the generateEmbeddings call in progress
  chk,          \* the chunkText call: its input, config and chunks
  batch,        \* the POST /files request in progress
  stats,        \* the getDocumentStats readings of a caller
  adv           \* an assessment's state column and the advance requests on it

vars == <<table, vecIndex, vecAvailable, txn, ing, usedDocs, deleted, search, gen, qry,
          emb, chk, batch, stats, adv>>

(* ------------------------------ helpers ------------------------------- *)
Min(a, b) == IF a <= b THEN a ELSE b
Max(a, b) == IF a >= b THEN a ELSE b
Abs(x) == IF x < 0 THEN -x ELSE x
Range(s) == {s[i] : i \in 1..Len(s)}

\* Math.sqrt on a fixed-point argument: the largest r with r * r <= n
RECURSIVE SqrtBits(_, _, _)
SqrtBits(n, r, b) ==
  IF b = 0 THEN r
  ELSE IF (r + b) * (r + b) <= n THEN SqrtBits(n, r + b, b \div 2)
       ELSE SqrtBits(n, r, b \div 2)
Sqrt(n) == SqrtBits(n, 0, 32768)

(* ------------------------- DocumentProcessor -------------------------- *)
\* createChunk: one chunk of document d, before its embedding is attached
createChunk(d, i, n) ==
  [id |-> <<d, i>>, documentId |-> d, chunkIndex |-> i,
   content |-> "document " \o ToString(d) \o ", chunk " \o ToString(i),
   embedding |-> None,
   metadata |-> [sourcePathOrUrl |-> SourcePath(d), page |-> None,
                 lineStart |-> Some(i + 1), lineEnd |-> Some(i + 2),
                 totalChunks |-> n]]

\* the chunk list processFile / processURL returns: n chunks, indices 0..n-1
ProcessingResult(d, n) == [i \in 1..n |-> createChunk(d, i - 1, n)]

(* ----------------------------- VectorStore ---------------------------- *)
NoTxn == [owner |-> 0]

\* INSERT OR REPLACE INTO document_embeddings: the row replaces one of the
\* same id and takes a new rowid (the end of the table)
insertStmt(rows, chunk) ==
  Append(SelectSeq(rows, LAMBDA r : r.id # chunk.id), chunk)

\* INSERT OR REPLACE INTO vec_embeddings (id, embedding)
insertVecStmt(index, chunk) ==
  {e \in index : e.id # chunk.id} \cup {[id |-> chunk.id, embedding |-> Val(chunk.embedding)]}

\* better-sqlite3 transaction wrapper: what is committed when the function
\* throws (ROLLBACK) and when it returns (COMMIT)
RollbackKeepsWrites(committed, working) == working
Rollback(committed, working) == committed
Commit(committed, working) == working

(* ------------------------ RAGPipeline ingestion ------------------------ *)
Idle == [pc |-> "idle", doc |-> 0, chunks |-> <<>>, written |-> 0]

\* ingestFile / ingestURL, first stage: processFile / processURL.  It throws
\* (unsupported file type, unreadable file, extraction error) or returns the
\* chunks of a new document id.
ProcessDocumentUpTo(p, most) ==
  /\ ing[p].pc = "idle"
  /\ \/ /\ ing' = [ing EXCEPT ![p].pc = "failed"]
        /\ UNCHANGED usedDocs
     \/ \E d \in DocIds \ usedDocs, n \in 0..most :
          /\ ing' = [ing EXCEPT ![p] = [pc |-> "chunked", doc |-> d,
                                        chunks |-> ProcessingResult(d, n),
                                        written |-> 0]]
          /\ usedDocs' = usedDocs \cup {d}
  /\ UNCHANGED <<table, vecIndex, vecAvailable, txn, deleted, search, gen, qry, emb, chk, batch, stats, adv>>

ProcessDocument(p) == ProcessDocumentUpTo(p, MaxChunks)

\* chunks[i].embedding = embeddings[i].embedding
AttachEmbeddingsButLast(chunks, embs) ==
  [i \in 1..Len(chunks) |->
     IF i < Len(chunks) THEN [chunks[i] EXCEPT !.embedding = Some(embs[i])] ELSE chunks[i]]
AttachEmbeddings(chunks, embs) ==
  [i \in 1..Len(chunks) |-> [chunks[i] EXCEPT !.embedding = Some(embs[i])]]

\* second stage: generateEmbeddings over the chunk texts, then the loop that
\* attaches them; an embedding call that throws makes the whole call throw
GenerateEmbeddings(p) ==
  /\ ing[p].pc = "chunked"
  /\ \/ /\ Len(ing[p].chunks) > 0
        /\ ing' = [ing EXCEPT ![p].pc = "failed"]
     \/ \E embs \in [1..Len(ing[p].chunks) -> Embeddings] :
          ing' = [ing EXCEPT ![p].pc = "embedded",
                             ![p].chunks = AttachEmbeddings(ing[p].chunks, embs)]
  /\ UNCHANGED <<table, vecIndex, vecAvailable, txn, usedDocs, deleted, search, gen, qry, emb, chk, batch, stats, adv>>

\* addChunks up to the start of the transaction.  db.prepare compiles the
\* statement: the INSERT into vec_embeddings cannot be prepared when the
\* vec0 table is not there, and addChunks throws before writing anything.
\* Otherwise the transaction begins once no other write is open.
AddChunksBegin(p) ==
  /\ ing[p].pc = "embedded"
  /\ \/ /\ ~vecAvailable
        /\ ing' = [ing EXCEPT ![p].pc = "failed"]
        /\ UNCHANGED txn
     \/ /\ vecAvailable
        /\ txn = NoTxn
        /\ txn' = [owner |-> p, table |-> table, vec |-> vecIndex, next |-> 1]
        /\ ing' = [ing EXCEPT ![p].pc = "writing"]
  /\ UNCHANGED <<table, vecIndex, vecAvailable, usedDocs, deleted, search, gen, qry, emb, chk, batch, stats, adv>>

\* one turn of the loop in the transaction: insertStmt.run, then
\* insertVecStmt.run inside try/catch (a failure of it is swallowed)
AddChunksInsert(p) ==
  /\ ing[p].pc = "writing"
  /\ txn.owner = p
  /\ txn.next <= Len(ing[p].chunks)
  /\ LET chunk == ing[p].chunks[txn.next]
         rows == insertStmt(txn.table, chunk)
     IN \/ /\ IsSome(chunk.embedding)
           /\ txn' = [txn EXCEPT !.table = rows,
                                 !.vec = insertVecStmt(txn.vec, chunk),
                                 !.next = txn.next + 1]
        \/ txn' = [txn EXCEPT !.table = rows, !.next = txn.next + 1]
  /\ ing' = [ing EXCEPT ![p].written = ing[p].written + 1]
  /\ UNCHANGED <<table, vecIndex, vecAvailable, usedDocs, deleted, search, gen, qry, emb, chk, batch, stats, adv>>

\* addChunks without the transaction wrapper: the rows written before the
\* failing statement stay
AddChunksAbortNoTransaction(p) ==
  /\ ing[p].pc = "writing"
  /\ txn.owner = p
  /\ table' = txn.table
  /\ vecIndex' = txn.vec
  /\ txn' = NoTxn
  /\ ing' = [ing EXCEPT ![p].pc = "failed"]
  /\ UNCHANGED <<vecAvailable, usedDocs, deleted, search, gen, qry, emb, chk, batch, stats, adv>>

\* insertStmt.run (or BEGIN / COMMIT) throws: the wrapper rolls back and
\* rethrows, ingestFile rethrows
AddChunksAbort(p) ==
  /\ ing[p].pc = "writing"
  /\ txn.owner = p
  /\ table' = Rollback(table, txn.table)
  /\ vecIndex' = Rollback(vecIndex, txn.vec)
  /\ txn' = NoTxn
  /\ ing' = [ing EXCEPT ![p].pc = "failed"]
  /\ UNCHANGED <<vecAvailable, usedDocs, deleted, search, gen, qry, emb, chk, batch, stats, adv>>

\* the loop is over: COMMIT, and ingestFile returns its IngestionResult
AddChunksCommit(p) ==
  /\ ing[p].pc = "writing"
  /\ txn.owner = p
  /\ txn.next = Len(ing[p].chunks) + 1
  /\ table' = Commit(table, txn.table)
  /\ vecIndex' = Commit(vecIndex, txn.vec)
  /\ txn' = NoTxn
  /\ ing' = [ing EXCEPT ![p].pc = "done"]
  /\ UNCHANGED <<vecAvailable, usedDocs, deleted, search, gen, qry, emb, chk, batch, stats, adv>>

\* the caller has the result (or the error); the call is over
IngestReturn(p) ==
  /\ ing[p].pc \in {"done", "failed"}
  /\ ing' = [ing EXCEPT ![p] = Idle]
  /\ UNCHANGED <<table, vecIndex, vecAvailable, txn, usedDocs, deleted, search, gen, qry, emb, chk, batch, stats, adv>>

(* ------------------------ VectorStore: delete -------------------------- *)
\* a DELETE that stops at the first chunk of the document
deleteEmbeddingsChunkZero(rows, documentId) ==
  SelectSeq(rows, LAMBDA r : r.documentId # documentId \/ r.chunkIndex # 0)

\* DELETE FROM document_embeddings WHERE document_id = ?
deleteEmbeddings(rows, documentId) ==
  SelectSeq(rows, LAMBDA r : r.documentId # documentId)

\* DELETE FROM vec_embeddings WHERE id IN
\*   (SELECT id FROM document_embeddings WHERE document_id = ?)
deleteVec(index, rows, documentId) ==
  {e \in index : e.id \notin {r.id : r \in {x \in Range(rows) : x.documentId = documentId}}}

\* the ids deleteDocument can be called with: those an ingestion has returned
\* (a caller learns a document id from an IngestionResult only)
Returned(d) == d \in usedDocs /\ \A p \in Procs : ing[p].doc = d => ing[p].pc = "done"

\* deleteDocument.  Both statements are prepared before the transaction, so
\* without the vec0 table the call throws and deletes nothing.  In the
\* transaction deleteEmbeddings runs first and deleteVec second, on the rows
\* that are left.
DeleteDocument(d) ==
  /\ Returned(d)
  /\ \/ /\ ~vecAvailable
        /\ UNCHANGED <<table, vecIndex, deleted>>
     \/ /\ vecAvailable
        /\ txn = NoTxn
        /\ LET rows == deleteEmbeddings(table, d)
           IN /\ table' = Commit(table, rows)
              /\ vecIndex' = Commit(vecIndex, deleteVec(vecIndex, rows, d))
        /\ deleted' = deleted \cup {d}
  /\ UNCHANGED <<vecAvailable, txn, ing, usedDocs, search, gen, qry, emb, chk, batch, stats, adv>>

\* The embedding column.  A row of the model keeps the vector that was
\* written; its blob is Buffer.from(new Float32Array(embedding).buffer), the
\* four little-endian bytes of each float32 (the vectors of the model have
\* the components -1, 0 and 1).
Float32Bytes(x) ==
  CASE x = 0 -> <<0, 0, 0, 0>>
    [] x = 1 -> <<0, 0, 128, 63>>
    [] x = -1 -> <<0, 0, 128, 191>>
RECURSIVE EncodeBlob(_)
EncodeBlob(embedding) ==
  IF embedding = <<>> THEN <<>>
  ELSE Float32Bytes(Head(embedding)) \o EncodeBlob(Tail(embedding))

\* Array.from(new Float32Array(row.embedding)): row.embedding is a Buffer, a
\* Uint8Array, and a typed array built from a typed array takes one element
\* per element of it: every byte of the blob becomes one number
DecodeBlob(blob) == [i \in 1..Len(blob) |-> blob[i]]

\* rowToChunk(row)
rowToChunk(row) ==
  [row EXCEPT !.embedding = IF IsSome(row.embedding)
                            THEN Some(DecodeBlob(EncodeBlob(Val(row.embedding))))
                            ELSE None]

\* getChunksByDocumentId: ... WHERE document_id = ? ORDER BY chunk_index
RECURSIVE OrderByChunkIndex(_, _)
OrderByChunkIndex(rows, i) ==
  IF i > MaxChunks THEN <<>>
  ELSE SelectSeq(rows, LAMBDA r : r.chunkIndex = i) \o OrderByChunkIndex(rows, i + 1)
getChunksByDocumentId(documentId) ==
  LET rows == OrderByChunkIndex(SelectSeq(table, LAMBDA r : r.documentId = documentId), 0)
  IN [k \in 1..Len(rows) |-> rowToChunk(rows[k])]

\* the constructor, run again on the same dbPath (a restart of the service):
\* CREATE TABLE IF NOT EXISTS keeps the rows, loadVectorExtension probes again
Construct ==
  /\ txn = NoTxn
  /\ \A p \in Procs : ing[p].pc = "idle"
  /\ vecAvailable' \in BOOLEAN
  /\ UNCHANGED <<table, vecIndex, txn, ing, usedDocs, deleted, search, gen, qry, emb, chk, batch, stats, adv>>

(* ------------------------ VectorStore: counts -------------------------- *)
\* SELECT COUNT(DISTINCT document_id) FROM document_embeddings
getDocumentCount(rows) == Cardinality({rows[k].documentId : k \in 1..Len(rows)})

\* SELECT COUNT(*) FROM document_embeddings
getChunkCount(rows) == Len(rows)

\* RAGPipeline.getDocumentStats
getDocumentStats ==
  [documentCount |-> getDocumentCount(table), chunkCount |-> getChunkCount(table)]

\* the readings a caller has taken with getDocumentStats
NoStats == <<>>
MaxReadings == 3

\* A call of getDocumentStats between two other calls of the caller.  With
\* the result the reading keeps what the caller has done so far: the
\* documents it has ingested and those it has deleted.
GetDocumentStats ==
  /\ Len(stats) < MaxReadings
  /\ txn = NoTxn
  /\ \A p \in Procs : ing[p].pc = "idle"
  /\ stats' = Append(stats, [result |-> getDocumentStats,
                             usedDocs |-> usedDocs,
                             deleted |-> deleted])
  /\ UNCHANGED <<table, vecIndex, vecAvailable, txn, ing, usedDocs, deleted, search, gen,
                 qry, emb, chk, batch, adv>>

(* ------------------------ VectorStore: search -------------------------- *)
\* the dimension of the vec0 column: float[config.embeddingDimension]
embeddingDimension == 2

Dot(a, b) == LET f[i \in 0..Len(a)] == IF i = 0 THEN 0 ELSE f[i - 1] + a[i] * b[i]
             IN f[Len(a)]

\* cosineSimilarity(a, b) for vectors of one length, in units of 1/Scale:
\* 0 when a norm is 0, else dotProduct / (sqrt(normA) * sqrt(normB))
cosineSimilarity(a, b) ==
  LET dotProduct == Dot(a, b)
      normA == Dot(a, a)
      normB == Dot(b, b)
      denom == Sqrt(normA * Scale * Scale) * Sqrt(normB * Scale * Scale)
      q == (Abs(dotProduct) * Scale * Scale * Scale) \div denom
  IN IF normA = 0 \/ normB = 0 THEN 0
     ELSE IF dotProduct < 0 THEN -q ELSE q

\* the distance vec0 reports for a MATCH: the column is declared without a
\* distance_metric, so it is the Euclidean (L2) distance
vecDistance(a, b) ==
  LET d == [i \in 1..Len(a) |-> a[i] - b[i]]
  IN Sqrt(Dot(d, d) * Scale * Scale)

\* Array.prototype.sort((a, b) => b.score - a.score): stable, descending score
RECURSIVE SortByScore(_)
SortByScore(s) ==
  IF s = <<>> THEN <<>>
  ELSE LET last == s[Len(s)]
           front == SortByScore(SubSeq(s, 1, Len(s) - 1))
           before == SelectSeq(front, LAMBDA x : x.score >= last.score)
           after == SelectSeq(front, LAMBDA x : x.score < last.score)
       IN before \o <<last>> \o after

\* .slice(0, topK), topK >= 0
Slice(s, topK) == SubSeq(s, 1, Min(topK, Len(s)))

\* if (documentIds && documentIds.length > 0): documentIds is None for
\* undefined and Some(S) for an array of the ids S ([] is Some({}))
HasFilterWhenDefined(documentIds) == IsSome(documentIds)
HasFilter(documentIds) == IsSome(documentIds) /\ Val(documentIds) # {}

\* the rows a SELECT on document_embeddings yields.  Without a WHERE on
\* document_id SQLite scans the table in rowid order; with document_id IN
\* (...) it walks idx_document_id: ascending document_id, then rowid.
RECURSIVE IndexScan(_, _, _)
IndexScan(rows, documentIds, d) ==
  IF d > MaxDocs THEN <<>>
  ELSE (IF d \in documentIds THEN SelectSeq(rows, LAMBDA r : r.documentId = d) ELSE <<>>)
       \o IndexScan(rows, documentIds, d + 1)
SelectRows(rows, documentIds) ==
  IF HasFilter(documentIds) THEN IndexScan(rows, Val(documentIds), 1) ELSE rows

\* vectorSearch throws: vec_embeddings is not there (prepare fails); the SQL
\* has two WHERE clauses when documentIds is not empty (a syntax error); the
\* query vector does not have the column's dimension.
vectorSearchThrows(queryEmbedding, documentIds) ==
  \/ ~vecAvailable
  \/ HasFilter(documentIds)
  \/ Len(queryEmbedding) # embeddingDimension

\* vectorSearch without documentIds: vec_embeddings JOIN document_embeddings
\* ON id, ORDER BY vec.distance LIMIT topK; score = 1 - distance
vectorSearch(queryEmbedding, topK) ==
  LET joined == SelectSeq(table, LAMBDA r : \E e \in vecIndex : e.id = r.id)
      entry(r) == CHOOSE e \in vecIndex : e.id = r.id
      result(r) == LET distance == vecDistance(queryEmbedding, entry(r).embedding)
                   IN [chunk |-> rowToChunk(r), score |-> Scale - distance,
                       distance |-> distance]
  IN Slice(SortByScore([i \in 1..Len(joined) |-> result(joined[i])]), topK)

\* cosineSimilarity throws when the vector read from a row has another
\* length than the query
cosineSearchThrows(queryEmbedding, documentIds) ==
  \E r \in Range(SelectRows(table, documentIds)) :
     /\ IsSome(r.embedding)
     /\ Len(DecodeBlob(EncodeBlob(Val(r.embedding)))) # Len(queryEmbedding)

\* cosineSimilaritySearch: scan the rows that have an embedding, score each,
\* sort, slice
cosineSimilaritySearch(queryEmbedding, topK, documentIds) ==
  LET rows == SelectSeq(SelectRows(table, documentIds), LAMBDA r : IsSome(r.embedding))
      result(r) == LET embedding == DecodeBlob(EncodeBlob(Val(r.embedding)))
                       similarity == cosineSimilarity(queryEmbedding, embedding)
                   IN [chunk |-> rowToChunk(r), score |-> similarity,
                       distance |-> Scale - similarity]
  IN Slice(SortByScore([i \in 1..Len(rows) |-> result(rows[i])]), topK)

\* searchSimilar: try vectorSearch, on any error cosineSimilaritySearch.
\* attempts lists the private methods the call has entered, in order.
searchSimilar(queryEmbedding, topK, documentIds) ==
  IF ~vectorSearchThrows(queryEmbedding, documentIds)
  THEN [path |-> "vector", results |-> vectorSearch(queryEmbedding, topK),
        attempts |-> <<"vectorSearch">>]
  ELSE IF cosineSearchThrows(queryEmbedding, documentIds)
       THEN [path |-> "throws", results |-> <<>>,
             attempts |-> <<"vectorSearch", "cosineSimilaritySearch">>]
       ELSE [path |-> "cosine",
             results |-> cosineSimilaritySearch(queryEmbedding, topK, documentIds),
             attempts |-> <<"vectorSearch", "cosineSimilaritySearch">>]

\* the documentIds arguments: undefined, or an array of known ids
DocumentIdLists == {None} \cup {Some(ids) : ids \in SUBSET usedDocs}

\* a caller of the store may also hand in a vector of four times the
\* dimension (the question embedded by a larger model)
StoreQueryEmbeddings == QueryEmbeddings \cup {<<0, 0, 1, 0, 0, 0, 0, 0>>}

\* a caller of the store runs searchSimilar
SearchSimilar ==
  \E q \in StoreQueryEmbeddings, topK \in 0..MaxTopK, documentIds \in DocumentIdLists :
    /\ search' = [searchSimilar(q, topK, documentIds) EXCEPT !.path = @]
                   @@ [queryEmbedding |-> q, topK |-> topK, documentIds |-> documentIds]
    /\ UNCHANGED <<table, vecIndex, vecAvailable, txn, ing, usedDocs, deleted, gen, qry, emb, chk, batch, stats, adv>>

(* --------------------- OllamaClient: generation ------------------------ *)
(* A reply of client.generate is [kind |-> "throw"] (the call failed) or    *)
(* [kind |-> "text", json |-> j]: j is None when JSON.parse throws, else    *)
(* Some(value).  In a JSON value a field is None when it is missing or of   *)
(* the wrong type, Some(v) otherwise.                                       *)
Ptr(src, page, lineStart, lineEnd, snippet) ==
  [sourcePathOrUrl |-> src, page |-> page, lineStart |-> lineStart,
   lineEnd |-> lineEnd, snippet |-> snippet]
FullPtr == Ptr(Some(SourcePath(1)), Some(3), Some(5), Some(9), Some("quote"))
BarePtr == Ptr(Some(SourcePath(1)), None, None, None, None)
LineEndPtr == Ptr(Some(SourcePath(1)), None, None, Some(9), None)
UnmatchedPtr == Ptr(Some(SourcePath(0)), None, Some(5), None, None)
NoSourcePtr == Ptr(None, None, Some(5), Some(9), None)

ClaimJson(ptrs) ==
  [text |-> Some("claim"), evidencePointers |-> Some(ptrs),
   guidelineIds |-> Some(<<"EIA748-1">>), attributeIds |-> Some(<<>>),
   confidence |-> Some(Scale - 1)]
ReplyJson(claims, summary, overallConfidence, extra) ==
  [kind |-> "text",
   json |-> Some([claims |-> Some(claims), summary |-> summary,
                  overallConfidence |-> overallConfidence,
                  evidenceGaps |-> None, extra |-> extra])]
Accepted(claims) == ReplyJson(claims, Some("summary"), Some(Scale - 1), None)

\* the replies the generative model gives in this model
Replies ==
  { [kind |-> "throw"],
    [kind |-> "text", json |-> None],
    ReplyJson(<<>>, None, Some(Scale - 1), None),
    ReplyJson(<<>>, Some("summary"), Some(Scale + 1), None),
    Accepted(<<ClaimJson(<<NoSourcePtr>>)>>),
    Accepted(<<>>),
    ReplyJson(<<>>, Some("summary"), Some(0), Some("unknown key")),
    Accepted(<<ClaimJson(<<>>)>>),
    Accepted(<<ClaimJson(<<FullPtr>>)>>),
    Accepted(<<ClaimJson(<<BarePtr, UnmatchedPtr>>)>>),
    Accepted(<<ClaimJson(<<LineEndPtr>>)>>) }

\* EvidenceTracedResponseSchema: does the value parse
ValidPointer(p) == IsSome(p.sourcePathOrUrl)
ValidClaim(c) ==
  /\ IsSome(c.text)
  /\ IsSome(c.evidencePointers)
  /\ \A i \in 1..Len(Val(c.evidencePointers)) : ValidPointer(Val(c.evidencePointers)[i])
  /\ IsSome(c.guidelineIds)
  /\ IsSome(c.attributeIds)
  /\ IsSome(c.confidence) /\ Val(c.confidence) >= 0 /\ Val(c.confidence) <= Scale
SchemaAccepts(j) ==
  /\ IsSome(j.claims)
  /\ \A i \in 1..Len(Val(j.claims)) : ValidClaim(Val(j.claims)[i])
  /\ IsSome(j.summary)
  /\ IsSome(j.overallConfidence)
  /\ Val(j.overallConfidence) >= 0 /\ Val(j.overallConfidence) <= Scale

\* EvidenceTracedResponseSchema.parse: the typed value, unknown keys stripped
ParsedPointer(p) == [p EXCEPT !.sourcePathOrUrl = Val(p.sourcePathOrUrl)]
ParsedClaim(c) ==
  [text |-> Val(c.text),
   evidencePointers |-> [i \in 1..Len(Val(c.evidencePointers)) |->
                           ParsedPointer(Val(c.evidencePointers)[i])],
   guidelineIds |-> Val(c.guidelineIds), attributeIds |-> Val(c.attributeIds),
   confidence |-> Val(c.confidence)]
SchemaParse(j) ==
  [claims |-> [i \in 1..Len(Val(j.claims)) |-> ParsedClaim(Val(j.claims)[i])],
   summary |-> Val(j.summary),
   overallConfidence |-> Val(j.overallConfidence),
   evidenceGaps |-> j.evidenceGaps]

\* the no-claim response returned on the final failure
DegradedResponse ==
  [claims |-> <<>>, summary |-> "Insufficient evidence to make reliable claims",
   overallConfidence |-> 0,
   evidenceGaps |-> Some(<<"Unable to process context or generate valid response">>)]

\* the default of the retries parameter
DefaultRetries == 3

NoGen == [status |-> "idle", retries |-> 0, attempt |-> 0, calls |-> 0,
          failed |-> 0, reply |-> [kind |-> "none"], result |-> None]

\* for (attempt = 0; attempt < retries; attempt++)
LoopContinues(attempt, retries) == attempt < retries
\* if (attempt === retries - 1) in the catch block
IsFinalAttemptNever(attempt, retries) == attempt = retries
IsFinalAttempt(attempt, retries) == attempt = retries - 1

\* generateEvidenceTracedResponse is entered: the loop runs, or with no
\* attempt to make the function falls through to its final throw
GenerateStart(retries) ==
  gen' = [NoGen EXCEPT !.retries = retries,
                       !.status = IF LoopContinues(0, retries) THEN "attempting"
                                  ELSE "raised"]

\* one turn of the loop: client.generate, JSON.parse, schema parse; a
\* validated value is returned, anything else lands in the catch block
GenerateAttempt ==
  /\ gen.status = "attempting"
  /\ \E reply \in Replies :
       LET ok == reply.kind = "text" /\ IsSome(reply.json) /\ SchemaAccepts(Val(reply.json))
           g == [gen EXCEPT !.calls = gen.calls + 1, !.reply = reply]
       IN IF ok
          THEN gen' = [g EXCEPT !.status = "success",
                                !.result = Some(SchemaParse(Val(reply.json)))]
          ELSE IF IsFinalAttempt(gen.attempt, gen.retries)
               THEN gen' = [g EXCEPT !.status = "degraded", !.failed = gen.failed + 1,
                                     !.result = Some(DegradedResponse)]
               ELSE gen' = [g EXCEPT !.attempt = gen.attempt + 1,
                                     !.failed = gen.failed + 1,
                                     !.status = IF LoopContinues(gen.attempt + 1, gen.retries)
                                                THEN "attempting" ELSE "raised"]
  /\ UNCHANGED <<table, vecIndex, vecAvailable, txn, ing, usedDocs, deleted, search, qry, emb, chk, batch, stats, adv>>

(* ----------------------- OllamaClient: rerank --------------------------- *)
\* a reply of the reranker model: the call throws, or a text in which the
\* pattern finds no number (None) or the number n (in units of 1/Scale)
RerankReplies ==
  { [kind |-> "throw"], [kind |-> "text", number |-> None],
    [kind |-> "text", number |-> Some(Scale \div 5)],
    [kind |-> "text", number |-> Some(7 * Scale)] }

\* scoreMatch ? Math.min(1.0, Math.max(0.0, parseFloat(scoreMatch[1]))) : 0.5
RerankScore(reply) ==
  IF reply.number = None THEN Scale \div 2
  ELSE Min(Scale, Max(0, Val(reply.number)))

\* documents.sort(by score, descending).slice(0, topK): the answer without
\* a reranker model and after a reranker failure
PassThrough(documents, topK) == Slice(SortByScore(documents), topK)

\* did a reranker call fail, or was every document scored
RerankMode(replies) ==
  IF \E i \in 1..Len(replies) : replies[i].kind = "throw" THEN "failed" ELSE "scored"

\* rerank(query, documents, topK) given the reranker's reply for each document
rerankKeepsPartialScores(documents, topK, replies) ==
  LET firstThrow == IF \E i \in 1..Len(documents) : replies[i].kind = "throw"
                    THEN CHOOSE i \in 1..Len(documents) :
                           /\ replies[i].kind = "throw"
                           /\ \A j \in 1..(i - 1) : replies[j].kind # "throw"
                    ELSE Len(documents) + 1
  IN Slice(SortByScore([i \in 1..Len(documents) |->
                          IF i < firstThrow
                          THEN [documents[i] EXCEPT !.score = RerankScore(replies[i])]
                          ELSE documents[i]]),
           topK)
rerank(documents, topK, replies) ==
  IF \E i \in 1..Len(documents) : replies[i].kind = "throw"
  THEN PassThrough(documents, topK)
  ELSE Slice(SortByScore([i \in 1..Len(documents) |->
                            [documents[i] EXCEPT !.score = RerankScore(replies[i])]]),
             topK)

(* -------------------------- RAGPipeline.query --------------------------- *)
\* config.retrieval
confidenceThreshold == Scale \div 10
retrievalTopK == MaxTopK
rerankTopK == Max(1, MaxTopK - 1)

\* options?.x || config.x
OrDefault(o, d) == IF o = None \/ Val(o) = 0 THEN d ELSE Val(o)

\* result.score >= this.config.retrieval.confidenceThreshold
PassesAnything(score) == TRUE
PassesThreshold(score) == score >= confidenceThreshold

\* the response of the short circuit
NoEvidenceResponse ==
  [claims |-> <<>>, summary |-> "No relevant evidence found for the query",
   overallConfidence |-> 0,
   evidenceGaps |-> Some(<<"Insufficient relevant documents in knowledge base">>)]

\* chunk.content.substring(0, 200) + '...'
SnippetLength == 200
Snippet(content) == SubSeq(content, 1, Min(Len(content), SnippetLength)) \o "..."

\* JavaScript truthiness of an optional number and of an optional string
TruthyNumber(o) == IsSome(o) /\ Val(o) # 0
TruthyString(o) == IsSome(o) /\ Val(o) # ""

\* the body of the loop of enhanceEvidencePointers for one pointer
EnhancePointer(ptr, contextChunks) ==
  LET hits == {i \in 1..Len(contextChunks) :
                 contextChunks[i].chunk.metadata.sourcePathOrUrl = ptr.sourcePathOrUrl}
  IN IF hits = {} THEN ptr
     ELSE LET chunk == contextChunks[CHOOSE i \in hits : \A j \in hits : i <= j].chunk
              metadata == chunk.metadata
              p1 == IF ~TruthyNumber(ptr.page) /\ TruthyNumber(metadata.page)
                    THEN [ptr EXCEPT !.page = metadata.page] ELSE ptr
              p2 == IF ~TruthyNumber(p1.lineStart) /\ TruthyNumber(metadata.lineStart)
                    THEN [p1 EXCEPT !.lineStart = metadata.lineStart,
                                    !.lineEnd = metadata.lineEnd]
                    ELSE p1
          IN IF ~TruthyString(p2.snippet) /\ chunk.content # ""
             THEN [p2 EXCEPT !.snippet = Some(Snippet(chunk.content))] ELSE p2

enhanceEvidencePointers(response, contextChunks) ==
  [response EXCEPT !.claims =
     [i \in 1..Len(response.claims) |->
        [response.claims[i] EXCEPT !.evidencePointers =
           [j \in 1..Len(response.claims[i].evidencePointers) |->
              EnhancePointer(response.claims[i].evidencePointers[j], contextChunks)]]]]

NoQuery == [pc |-> "idle", scope |-> None, topK |-> None, rerankK |-> None,
            enableReranking |-> FALSE, embedding |-> <<>>, retrieved |-> <<>>,
            filtered |-> <<>>, reranked |-> None, raw |-> None, response |-> None,
            retrievedChunks |-> <<>>, genCalls |-> 0, rerankMode |-> "none",
            maxRetries |-> 0]

\* OllamaConfig.maxRetries: the values the client of a pipeline is
\* configured with
ConfiguredMaxRetries == 1..3

\* query is called (scope, options) and awaits generateEmbedding(question),
\* which throws or returns the question's vector.  maxRetries is the
\* configuration of the client that serves the call.
QueryEmbed ==
  /\ qry.pc = "idle"
  /\ \E scope \in DocumentIdLists, topK \in {None, Some(1)}, rr \in BOOLEAN,
        m \in ConfiguredMaxRetries :
       \/ qry' = [NoQuery EXCEPT !.pc = "failed", !.maxRetries = m]
       \/ \E q \in QueryEmbeddings :
            qry' = [NoQuery EXCEPT !.pc = "embedded", !.scope = scope, !.topK = topK,
                                   !.enableReranking = rr, !.embedding = q,
                                   !.maxRetries = m]
  /\ UNCHANGED <<table, vecIndex, vecAvailable, txn, ing, usedDocs, deleted, search, gen, emb, chk, batch, stats, adv>>

\* searchSimilar, the threshold filter and the short circuit; with chunks
\* left, rerank is awaited or generateEvidenceTracedResponse is entered
QueryRetrieve ==
  /\ qry.pc = "embedded"
  /\ LET found == searchSimilar(qry.embedding, OrDefault(qry.topK, retrievalTopK), qry.scope)
         filteredChunks == SelectSeq(found.results, LAMBDA r : PassesThreshold(r.score))
         q1 == [qry EXCEPT !.retrieved = found.results, !.filtered = filteredChunks]
     IN IF found.path = "throws"
        THEN qry' = [qry EXCEPT !.pc = "failed"] /\ UNCHANGED gen
        ELSE IF Len(filteredChunks) = 0
        THEN /\ qry' = [q1 EXCEPT !.pc = "done", !.response = Some(NoEvidenceResponse),
                                  !.retrievedChunks = <<>>]
             /\ UNCHANGED gen
        ELSE IF qry.enableReranking
        THEN qry' = [q1 EXCEPT !.pc = "reranking"] /\ UNCHANGED gen
        ELSE /\ qry' = [q1 EXCEPT !.pc = "generating"]
             /\ GenerateStart(DefaultRetries)
  /\ UNCHANGED <<table, vecIndex, vecAvailable, txn, ing, usedDocs, deleted, search, emb, chk, batch, stats, adv>>

\* rerank returns (it never throws); rerankedChunks pairs each reranked
\* document with its chunk; generateEvidenceTracedResponse is entered
QueryRerank ==
  /\ qry.pc = "reranking"
  /\ \/ qry' = [qry EXCEPT !.pc = "generating", !.rerankMode = "noModel",
                            !.reranked = Some(PassThrough(qry.filtered,
                                                 OrDefault(qry.rerankK, rerankTopK)))]
     \/ \E replies \in [1..Len(qry.filtered) -> RerankReplies] :
          qry' = [qry EXCEPT !.pc = "generating",
                             !.rerankMode = RerankMode(replies),
                             !.reranked = Some(rerank(qry.filtered,
                                                      OrDefault(qry.rerankK, rerankTopK),
                                                      replies))]
  /\ GenerateStart(DefaultRetries)
  /\ UNCHANGED <<table, vecIndex, vecAvailable, txn, ing, usedDocs, deleted, search, emb, chk, batch, stats, adv>>

\* the chunks the context block is built from
ContextChunks(q) == IF IsSome(q.reranked) THEN Val(q.reranked) ELSE q.filtered

\* generateEvidenceTracedResponse has returned or thrown:
\* enhanceEvidencePointers, then the RAGQueryResult
QueryRespond ==
  /\ qry.pc = "generating"
  /\ gen.status \in {"success", "degraded", "raised"}
  /\ IF gen.status = "raised"
     THEN qry' = [qry EXCEPT !.pc = "failed", !.genCalls = gen.calls]
     ELSE qry' = [qry EXCEPT !.pc = "done", !.genCalls = gen.calls,
                    !.raw = gen.result,
                    !.response = Some(enhanceEvidencePointers(Val(gen.result),
                                                              ContextChunks(qry))),
                    !.retrievedChunks = qry.filtered]
  /\ gen' = NoGen
  /\ UNCHANGED <<table, vecIndex, vecAvailable, txn, ing, usedDocs, deleted, search, emb, chk, batch, stats, adv>>

\* the caller has the result (or the error)
QueryReturnEvictingRetrieved ==
  /\ qry.pc \in {"done", "failed"}
  /\ qry' = NoQuery
  /\ table' = SelectSeq(table, LAMBDA r :
                 \A k \in 1..Len(qry.retrieved) : qry.retrieved[k].chunk.id # r.id)
  /\ UNCHANGED <<vecIndex, vecAvailable, txn, ing, usedDocs, deleted, search, gen, emb, chk,
                 batch, stats, adv>>
QueryReturn ==
  /\ qry.pc \in {"done", "failed"}
  /\ qry' = NoQuery
  /\ UNCHANGED <<table, vecIndex, vecAvailable, txn, ing, usedDocs, deleted, search, gen, emb, chk, batch, stats, adv>>

(* ------------------- OllamaClient.generateEmbeddings -------------------- *)
\* const batchSize = 10
batchSize == 10
\* the longest list of texts a call is given
MaxTexts == 11

\* the vector the embedding model gives for a text (one vector per text)
ServiceEmbedding(texts, text) == <<CHOOSE j \in 1..Len(texts) : texts[j] = text, 1>>

\* the value generateEmbedding returns
EmbeddingResult(texts, text) ==
  [embedding |-> ServiceEmbedding(texts, text), model |-> "embeddingModel",
   prompt |-> text]

NoEmb == [pc |-> "idle", texts |-> <<>>, i |-> 0, pending |-> {},
          batchResults |-> <<>>, results |-> <<>>, returned |-> None,
          failedCalls |-> 0, outOfOrder |-> FALSE, inFlight |-> {}]

\* texts = chunks.map(chunk => chunk.content)
Texts(chunks) == [k \in 1..Len(chunks) |-> chunks[k].content]

\* Promise.all: the value of the k-th promise is the k-th element of the
\* array it resolves to, whenever that promise fulfils
FulfilInCompletionOrder(batchResults, k, r) ==
  LET free == {m \in 1..Len(batchResults) : batchResults[m] = None}
  IN [batchResults EXCEPT ![CHOOSE m \in free : \A o \in free : m <= o] = Some(r)]
Fulfil(batchResults, k, r) == [batchResults EXCEPT ![k] = Some(r)]

\* Promise.all rejects with the first rejection; the await throws and
\* generateEmbeddings, which has no catch, throws with it
RejectKeepsCompleted(e) ==
  [e EXCEPT !.pc = "returned", !.pending = {}, !.returned = Some(e.results),
            !.failedCalls = e.failedCalls + 1]
Reject(e) ==
  [e EXCEPT !.pc = "failed", !.pending = {}, !.returned = None,
            !.failedCalls = e.failedCalls + 1]

\* texts.slice(i, i + batchSize), as the indexes (from 1) of its texts
BatchOfAllRemaining(i, n) == (i + 1)..n
BatchOf(i, n) == (i + 1)..Min(i + batchSize, n)

\* ingestFile / ingestURL call generateEmbeddings(texts)
GenerateEmbeddingsCall ==
  /\ ing[1].pc = "chunked"
  /\ emb.pc = "idle"
  /\ emb' = [NoEmb EXCEPT !.pc = "loop", !.texts = Texts(ing[1].chunks)]
  /\ UNCHANGED <<table, vecIndex, vecAvailable, txn, ing, usedDocs, deleted, search, gen,
                 qry, chk, batch, stats, adv>>

\* the loop head: the next batch is sliced and one generateEmbedding call is
\* dispatched per text, or the loop is over and results is returned
EmbedDispatch ==
  /\ emb.pc = "loop"
  /\ IF emb.i < Len(emb.texts)
     THEN LET indexes == BatchOf(emb.i, Len(emb.texts))
          IN emb' = [emb EXCEPT !.pc = "awaiting", !.pending = indexes,
                                !.inFlight = indexes,
                                !.batchResults = [k \in 1..Cardinality(indexes) |-> None]]
     ELSE emb' = [emb EXCEPT !.pc = "returned", !.returned = Some(emb.results)]
  /\ UNCHANGED <<table, vecIndex, vecAvailable, txn, ing, usedDocs, deleted, search, gen,
                 qry, chk, batch, stats, adv>>

\* one of the dispatched calls completes, in any order: it throws, or it
\* returns its result; with the last result of the batch the await resumes,
\* results.push(...batchResults), i += batchSize.  A rejection does not
\* cancel the other calls of the batch: they stay in flight.
EmbedSettle ==
  /\ emb.pc = "awaiting"
  /\ \E j \in emb.pending :
       \/ emb' = [Reject(emb) EXCEPT !.inFlight = emb.inFlight \ {j}]
       \/ LET placed == Fulfil(emb.batchResults, j - emb.i,
                               EmbeddingResult(emb.texts, emb.texts[j]))
          IN IF emb.pending = {j}
             THEN emb' = [emb EXCEPT !.pc = "loop", !.pending = {}, !.inFlight = {},
                            !.batchResults = <<>>,
                            !.results = emb.results \o [k \in 1..Len(placed) |-> Val(placed[k])],
                            !.i = emb.i + batchSize]
             ELSE emb' = [emb EXCEPT !.pending = emb.pending \ {j},
                                     !.inFlight = emb.inFlight \ {j},
                                     !.batchResults = placed,
                                     !.outOfOrder = emb.outOfOrder
                                                    \/ \E o \in emb.pending : o < j]
  /\ UNCHANGED <<table, vecIndex, vecAvailable, txn, ing, usedDocs, deleted, search, gen,
                 qry, chk, batch, stats, adv>>

\* a call of a rejected batch completes after the rejection: nobody awaits
\* it, its outcome is dropped
EmbedSettleUnawaited ==
  /\ emb.pc = "failed"
  /\ \E j \in emb.inFlight : emb' = [emb EXCEPT !.inFlight = emb.inFlight \ {j}]
  /\ UNCHANGED <<table, vecIndex, vecAvailable, txn, ing, usedDocs, deleted, search, gen,
                 qry, chk, batch, stats, adv>>

\* ingestFile resumes: the throw reaches its catch block, or the loop
\* chunks[i].embedding = embeddings[i].embedding runs (reading .embedding of
\* a missing element throws)
GenerateEmbeddingsReturn ==
  /\ emb.pc \in {"returned", "failed"}
  /\ ing[1].pc = "chunked"
  /\ IF emb.pc = "failed" \/ Len(Val(emb.returned)) < Len(ing[1].chunks)
     THEN ing' = [ing EXCEPT ![1].pc = "failed"]
     ELSE ing' = [ing EXCEPT ![1].pc = "embedded",
                    ![1].chunks = AttachEmbeddings(ing[1].chunks,
                                     [k \in 1..Len(Val(emb.returned)) |->
                                        Val(emb.returned)[k].embedding])]
  /\ emb' = NoEmb
  /\ UNCHANGED <<table, vecIndex, vecAvailable, txn, usedDocs, deleted, search, gen,
                 qry, chk, batch, stats, adv>>

(* ------------------------ DocumentProcessor.chunkText ------------------- *)
NoChunking == [pc |-> "idle"]

\* the texts given to chunkText: up to MaxPieces of these pieces in a row
MaxPieces == 5
Pieces == {"a.", "bb c.", "dddd", " ", "!"}
RECURSIVE Concat(_)
Concat(ps) == IF ps = <<>> THEN "" ELSE Head(ps) \o Concat(Tail(ps))
ChunkTexts == {Concat(ps) : ps \in UNION {[1..n -> Pieces] : n \in 0..MaxPieces}}
\* config.chunking
ChunkConfigs == [chunkSize : {4, 6}, chunkOverlap : {0, 2, 3}, minChunkSize : {0, 2}]

Char(str, i) == SubSeq(str, i, i)
Terminators == {".", "!", "?"}
Whitespace == {" ", "\n", "\t"}

\* String.prototype.split on a pattern [seps]+ : the pieces between the
\* maximal runs of separator characters, empty pieces included
RECURSIVE SplitRuns(_, _, _, _)
SplitRuns(str, seps, i, cur) ==
  IF i > Len(str) THEN <<cur>>
  ELSE IF Char(str, i) \in seps
       THEN IF i > 1 /\ Char(str, i - 1) \in seps
            THEN SplitRuns(str, seps, i + 1, cur)
            ELSE <<cur>> \o SplitRuns(str, seps, i + 1, "")
       ELSE SplitRuns(str, seps, i + 1, cur \o Char(str, i))
Split(str, seps) == SplitRuns(str, seps, 1, "")

\* String.prototype.trim
RECURSIVE Trim(_)
Trim(str) ==
  IF str = "" THEN ""
  ELSE IF Char(str, 1) \in Whitespace THEN Trim(SubSeq(str, 2, Len(str)))
  ELSE IF Char(str, Len(str)) \in Whitespace THEN Trim(SubSeq(str, 1, Len(str) - 1))
  ELSE str

\* Array.prototype.join
RECURSIVE Join(_, _)
Join(strs, sep) ==
  IF strs = <<>> THEN ""
  ELSE IF Len(strs) = 1 THEN strs[1]
  ELSE strs[1] \o sep \o Join(Tail(strs), sep)

\* text.split(/[.!?]+/).map(s => s.trim()).filter(s => s.length > 0)
splitIntoSentences(text) ==
  LET parts == Split(text, Terminators)
  IN SelectSeq([k \in 1..Len(parts) |-> Trim(parts[k])], LAMBDA str : str # "")

\* words.slice(-overlapWords): slice(-0) is slice(0), the whole array
SliceLast(words, k) ==
  IF k = 0 \/ k >= Len(words) THEN words
  ELSE SubSeq(words, Len(words) - k + 1, Len(words))

\* getOverlapText: the last floor(words * chunkOverlap / chunkSize) words
getOverlapText(text, config) ==
  LET words == Split(text, Whitespace)
      overlapWords == (Len(words) * config.chunkOverlap) \div config.chunkSize
  IN Join(SliceLast(words, overlapWords), " ")

\* Math.ceil(text.length / 80)
estimateLines(text) == (Len(text) + 79) \div 80

\* createChunk(content, chunkIndex, baseMetadata, lineStart, lineEnd)
DocumentChunk(content, chunkIndex, documentId, lineStart, lineEnd) ==
  [id |-> <<documentId, chunkIndex>>, documentId |-> documentId,
   chunkIndex |-> chunkIndex, content |-> content, embedding |-> None,
   metadata |-> [sourcePathOrUrl |-> SourcePath(documentId), page |-> None,
                 lineStart |-> Some(lineStart), lineEnd |-> Some(lineEnd),
                 chunkSize |-> Len(content), totalChunks |-> 0]]

\* chunks.forEach(chunk => chunk.metadata.totalChunks = chunks.length)
LeaveTotalChunks(chunks) == chunks
SetTotalChunks(chunks) ==
  [k \in 1..Len(chunks) |-> [chunks[k] EXCEPT !.metadata.totalChunks = Len(chunks)]]

\* the for loop of chunkText from sentence i on; st holds the locals
RECURSIVE ChunkLoop(_, _, _, _, _)
ChunkLoop(sentences, config, documentId, i, st) ==
  IF i > Len(sentences) THEN st
  ELSE
    LET sentence == sentences[i]
        potentialChunk == st.currentChunk
                          \o (IF st.currentChunk # "" THEN " " ELSE "") \o sentence
        overlapText == getOverlapText(st.currentChunk, config)
        next ==
          IF Len(potentialChunk) > config.chunkSize
             /\ Len(st.currentChunk) > config.minChunkSize
          THEN [st EXCEPT
                  !.chunks = Append(st.chunks,
                               DocumentChunk(st.currentChunk, st.currentChunkIndex,
                                             documentId, st.currentLineStart,
                                             st.currentLineEnd)),
                  !.currentChunk = overlapText
                                   \o (IF overlapText # "" THEN " " ELSE "") \o sentence,
                  !.currentChunkIndex = st.currentChunkIndex + 1,
                  !.currentLineStart = st.currentLineEnd - estimateLines(overlapText)]
          ELSE [st EXCEPT !.currentChunk = potentialChunk]
    IN ChunkLoop(sentences, config, documentId, i + 1,
                 [next EXCEPT !.currentLineEnd = next.currentLineEnd
                                                 + estimateLines(sentence)])

chunkText(text, config, documentId) ==
  LET st == ChunkLoop(splitIntoSentences(text), config, documentId, 1,
                      [chunks |-> <<>>, currentChunk |-> "", currentChunkIndex |-> 0,
                       currentLineStart |-> 1, currentLineEnd |-> 1])
      chunks == IF Len(st.currentChunk) >= config.minChunkSize
                THEN Append(st.chunks,
                       DocumentChunk(st.currentChunk, st.currentChunkIndex, documentId,
                                     st.currentLineStart, st.currentLineEnd))
                ELSE st.chunks
  IN SetTotalChunks(chunks)

\* processFile / processURL call chunkText on the extracted text
ChunkText ==
  /\ chk.pc = "idle"
  /\ \E text \in ChunkTexts, config \in ChunkConfigs :
       chk' = [pc |-> "done", text |-> text, config |-> config,
               chunks |-> chunkText(text, config, 1)]
  /\ UNCHANGED <<table, vecIndex, vecAvailable, txn, ing, usedDocs, deleted, search, gen,
                 qry, emb, batch, stats, adv>>

\* the chunks have been handed to the caller
ChunkTextReturn ==
  /\ chk.pc = "done"
  /\ chk' = NoChunking
  /\ UNCHANGED <<table, vecIndex, vecAvailable, txn, ing, usedDocs, deleted, search, gen,
                 qry, emb, batch, stats, adv>>

(* ---------------------- POST /api/ingest/files -------------------------- *)
NoBatch == [pc |-> "idle", files |-> 0, i |-> 1, results |-> <<>>, errors |-> <<>>]

\* the request arrives with its uploaded files; without files the handler
\* throws BadRequestError, otherwise the loop over the files starts
BatchStart ==
  /\ batch.pc = "idle"
  /\ ing[1].pc = "idle"
  /\ \E n \in 0..(MaxDocs - Cardinality(usedDocs)) :
       batch' = [NoBatch EXCEPT !.files = n,
                                !.pc = IF n = 0 THEN "rejected" ELSE "loop"]
  /\ UNCHANGED <<table, vecIndex, vecAvailable, txn, ing, usedDocs, deleted, search, gen,
                 qry, emb, chk, stats, adv>>

\* for (const file of files): the turn of file i awaits rag.ingestFile
BatchIngestFile ==
  /\ batch.pc = "loop"
  /\ batch.i <= batch.files
  /\ ProcessDocument(1)

\* results.push({..., success: true})
AfterFileSuccess(b, result) ==
  [b EXCEPT !.results = Append(b.results, result), !.i = b.i + 1]

\* the inner catch block: errors.push({..., success: false}), and the loop
\* goes on with the next file (doc: the document id the failed call had
\* drawn, 0 if none, kept for the record)
AfterFileErrorStops(b, call) ==
  [b EXCEPT !.errors = Append(b.errors, [file |-> b.i, success |-> FALSE,
                                         doc |-> call.doc]),
            !.i = b.files + 1]
AfterFileError(b, call) ==
  [b EXCEPT !.errors = Append(b.errors, [file |-> b.i, success |-> FALSE,
                                         doc |-> call.doc]),
            !.i = b.i + 1]

\* the IngestionResult ingestFile returns (an embedding is attached to a
\* chunk for each element of embeddings, so embeddings.length is their count)
IngestionResult(call) ==
  [documentId |-> call.doc, chunksProcessed |-> Len(call.chunks),
   embeddingsGenerated |-> Len(SelectSeq(call.chunks, LAMBDA c : IsSome(c.embedding)))]

\* ingestFile has returned or thrown: the turn records the outcome
BatchRecord ==
  /\ batch.pc = "loop"
  /\ ing[1].pc \in {"done", "failed"}
  /\ batch' = IF ing[1].pc = "done"
              THEN AfterFileSuccess(batch,
                     IngestionResult(ing[1]) @@ [file |-> batch.i, success |-> TRUE])
              ELSE AfterFileError(batch, ing[1])
  /\ ing' = [ing EXCEPT ![1] = Idle]
  /\ UNCHANGED <<table, vecIndex, vecAvailable, txn, usedDocs, deleted, search, gen,
                 qry, emb, chk, stats, adv>>

\* the loop is over: res.json with results, errors and the summary
BatchRespond ==
  /\ batch.pc = "loop"
  /\ batch.i > batch.files
  /\ ing[1].pc = "idle"
  /\ batch' = [batch EXCEPT !.pc = "responded"]
  /\ UNCHANGED <<table, vecIndex, vecAvailable, txn, ing, usedDocs, deleted, search, gen,
                 qry, emb, chk, stats, adv>>

\* the response (or the BadRequestError) has been sent
BatchEnd ==
  /\ batch.pc \in {"responded", "rejected"}
  /\ batch' = NoBatch
  /\ UNCHANGED <<table, vecIndex, vecAvailable, txn, ing, usedDocs, deleted, search, gen,
                 qry, emb, chk, stats, adv>>

(* ------------------- POST /api/assessments/:id/advance ------------------ *)
ASSESSMENT_STATES ==
  <<"SCOPING", "EVIDENCE_COLLECTION", "INTERVIEWS", "DRAFT_SCORING", "HIL_REVIEW",
    "REMEDIATION_PLAN", "FINAL_REPORT", "COMPLETED", "CANCELLED">>

\* getValidStateTransitions(currentState)
getValidStateTransitions(currentState) ==
  CASE currentState = "SCOPING" -> {"EVIDENCE_COLLECTION", "CANCELLED"}
    [] currentState = "EVIDENCE_COLLECTION" -> {"INTERVIEWS", "SCOPING", "CANCELLED"}
    [] currentState = "INTERVIEWS" -> {"DRAFT_SCORING", "EVIDENCE_COLLECTION", "CANCELLED"}
    [] currentState = "DRAFT_SCORING" -> {"HIL_REVIEW", "INTERVIEWS", "CANCELLED"}
    [] currentState = "HIL_REVIEW" -> {"REMEDIATION_PLAN", "DRAFT_SCORING", "CANCELLED"}
    [] currentState = "REMEDIATION_PLAN" -> {"FINAL_REPORT", "HIL_REVIEW", "CANCELLED"}
    [] currentState = "FINAL_REPORT" -> {"COMPLETED", "REMEDIATION_PLAN", "CANCELLED"}
    [] currentState = "COMPLETED" -> {"CANCELLED"}
    [] currentState = "CANCELLED" -> {}

\* the new states validateStateTransition has a check for (the check passes
\* or throws BadRequestError, by the assessment's documents, findings,
\* scores and action items); SCOPING and CANCELLED have none
GatedStates ==
  {"EVIDENCE_COLLECTION", "INTERVIEWS", "DRAFT_SCORING", "HIL_REVIEW",
   "REMEDIATION_PLAN", "FINAL_REPORT", "COMPLETED"}

NoRequest == [pc |-> "idle", assessment |-> None, newState |-> None]

\* the assessment as POST /api/assessments creates it, no request on it
NoAdvance == [state |-> "SCOPING", req |-> [p \in Procs |-> NoRequest]]

\* the handler up to its await: getAssessmentById, the canAdvance check,
\* the transition check against the state just read, then the call of
\* validateStateTransition, whose promise is awaited
AdvanceRead(p) ==
  /\ adv.req[p].pc = "idle"
  /\ \E k \in 1..Len(ASSESSMENT_STATES), canAdvance \in BOOLEAN :
       LET newState == ASSESSMENT_STATES[k]
           assessment == [state |-> adv.state]
       IN IF canAdvance /\ newState \in getValidStateTransitions(assessment.state)
          THEN adv' = [adv EXCEPT !.req[p] = [pc |-> "awaiting",
                                             assessment |-> Some(assessment),
                                             newState |-> Some(newState)]]
          ELSE adv' = [adv EXCEPT !.req[p] = [pc |-> "rejected",
                                             assessment |-> Some(assessment),
                                             newState |-> Some(newState)]]
  /\ UNCHANGED <<table, vecIndex, vecAvailable, txn, ing, usedDocs, deleted, search, gen,
                 qry, emb, chk, batch, stats>>

\* updateAssessmentState: UPDATE assessments SET state = ? WHERE id = ?
updateAssessmentState(state, newState) == newState

\* the handler after its await: validateStateTransition has thrown, or it
\* has passed and updateAssessmentState and res.json run
AdvanceWrite(p) ==
  /\ adv.req[p].pc = "awaiting"
  /\ \/ /\ Val(adv.req[p].newState) \in GatedStates
        /\ adv' = [adv EXCEPT !.req[p].pc = "rejected"]
     \/ adv' = [adv EXCEPT !.state = updateAssessmentState(adv.state,
                                                           Val(adv.req[p].newState)),
                           !.req[p].pc = "advanced"]
  /\ UNCHANGED <<table, vecIndex, vecAvailable, txn, ing, usedDocs, deleted, search, gen,
                 qry, emb, chk, batch, stats>>

\* the response (or the error) has been sent
AdvanceEnd(p) ==
  /\ adv.req[p].pc \in {"advanced", "rejected"}
  /\ adv' = [adv EXCEPT !.req[p] = NoRequest]
  /\ UNCHANGED <<table, vecIndex, vecAvailable, txn, ing, usedDocs, deleted, search, gen,
                 qry, emb, chk, batch, stats>>

NoSearch == [path |-> "none"]

StoreInit ==
  /\ table = <<>>
  /\ vecIndex = {}
  /\ vecAvailable \in BOOLEAN
  /\ txn = NoTxn
  /\ ing = [p \in Procs |-> Idle]
  /\ usedDocs = {}
  /\ deleted = {}
  /\ search = NoSearch
  /\ gen = NoGen
  /\ qry = NoQuery
  /\ emb = NoEmb
  /\ batch = NoBatch
  /\ stats = NoStats
  /\ adv = NoAdvance

Init == StoreInit /\ chk = NoChunking

Next ==
  \/ \E p \in Procs : ProcessDocument(p)
  \/ \E p \in Procs : GenerateEmbeddings(p)
  \/ \E p \in Procs : AddChunksBegin(p)
  \/ \E p \in Procs : AddChunksInsert(p)
  \/ \E p \in Procs : AddChunksAbort(p)
  \/ \E p \in Procs : AddChunksCommit(p)
  \/ \E p \in Procs : IngestReturn(p)
  \/ \E d \in DocIds : DeleteDocument(d)
  \/ Construct

Spec == Init /\ [][Next]_vars

\* The store used by one sequential caller (the indexer CLI, a test): one call
\* at a time, each returning before the next starts.
SearchReturn ==
  /\ search # NoSearch
  /\ search' = NoSearch
  /\ UNCHANGED <<table, vecIndex, vecAvailable, txn, ing, usedDocs, deleted, gen, qry, emb, chk, batch, stats, adv>>

NextSearch ==
  \/ search = NoSearch /\ ProcessDocument(1)
  \/ GenerateEmbeddings(1)
  \/ AddChunksBegin(1)
  \/ AddChunksInsert(1)
  \/ AddChunksAbort(1)
  \/ AddChunksCommit(1)
  \/ IngestReturn(1)
  \/ search = NoSearch /\ ing[1].pc = "idle" /\ \E d \in DocIds : DeleteDocument(d)
  \/ search = NoSearch /\ Construct
  \/ search = NoSearch /\ ing[1].pc = "idle" /\ SearchSimilar
  \/ SearchReturn

SpecSearch == Init /\ [][NextSearch]_vars

\* A caller of the client runs generateEvidenceTracedResponse with a retry
\* ceiling of its choice, and takes the result or the error.
MaxRetries == 3

GenerateCall ==
  /\ gen.status = "idle"
  /\ \E retries \in 0..MaxRetries : GenerateStart(retries)
  /\ UNCHANGED <<table, vecIndex, vecAvailable, txn, ing, usedDocs, deleted, search, qry, emb, chk, batch, stats, adv>>

GenerateReturn ==
  /\ gen.status \in {"success", "degraded", "raised"}
  /\ gen' = NoGen
  /\ UNCHANGED <<table, vecIndex, vecAvailable, txn, ing, usedDocs, deleted, search, qry, emb, chk, batch, stats, adv>>

NextGen ==
  \/ GenerateCall
  \/ GenerateAttempt
  \/ GenerateReturn

SpecGen == Init /\ [][NextGen]_vars

\* One sequential caller of the pipeline: it ingests QueryDocs documents and
\* runs queries, one call at a time.
QueryDocs == 1

NextQuery ==
  \/ qry.pc = "idle" /\ Cardinality(usedDocs) < QueryDocs /\ ProcessDocument(1)
  \/ GenerateEmbeddings(1)
  \/ AddChunksBegin(1)
  \/ AddChunksInsert(1)
  \/ AddChunksAbort(1)
  \/ AddChunksCommit(1)
  \/ IngestReturn(1)
  \/ ing[1].pc = "idle" /\ QueryEmbed
  \/ QueryRetrieve
  \/ QueryRerank
  \/ GenerateAttempt
  \/ QueryRespond
  \/ QueryReturn

SpecQuery == Init /\ [][NextQuery]_vars

\* One ingestion of a document of up to MaxTexts chunks, its embedding calls
\* dispatched batch by batch and completing in any order.
NextEmbed ==
  \/ usedDocs = {} /\ ProcessDocumentUpTo(1, MaxTexts)
  \/ GenerateEmbeddingsCall
  \/ EmbedDispatch
  \/ EmbedSettle
  \/ EmbedSettleUnawaited
  \/ GenerateEmbeddingsReturn
  \/ AddChunksBegin(1)
  \/ AddChunksInsert(1)
  \/ AddChunksAbort(1)
  \/ AddChunksCommit(1)
  \/ IngestReturn(1)

SpecEmbed == Init /\ [][NextEmbed]_vars

\* chunkText applied to every text of ChunkTexts under every config
NextChunk ==
  \/ ChunkText
  \/ ChunkTextReturn

SpecChunk == Init /\ [][NextChunk]_vars

\* POST /files requests served one after another
NextBatch ==
  \/ BatchStart
  \/ BatchIngestFile
  \/ GenerateEmbeddings(1)
  \/ AddChunksBegin(1)
  \/ AddChunksInsert(1)
  \/ AddChunksAbort(1)
  \/ AddChunksCommit(1)
  \/ BatchRecord
  \/ BatchRespond
  \/ BatchEnd

SpecBatch == Init /\ [][NextBatch]_vars

\* One caller that ingests, deletes, restarts the service and reads the
\* statistics in between
NextStats ==
  \/ ProcessDocument(1)
  \/ GenerateEmbeddings(1)
  \/ AddChunksBegin(1)
  \/ AddChunksInsert(1)
  \/ AddChunksAbort(1)
  \/ AddChunksCommit(1)
  \/ IngestReturn(1)
  \/ ing[1].pc = "idle" /\ \E d \in DocIds : DeleteDocument(d)
  \/ Construct
  \/ GetDocumentStats

SpecStats == Init /\ [][NextStats]_vars

\* advance requests on one assessment, served concurrently
NextAdvance ==
  \/ \E p \in Procs : AdvanceRead(p)
  \/ \E p \in Procs : AdvanceWrite(p)
  \/ \E p \in Procs : AdvanceEnd(p)

SpecAdvance == Init /\ [][NextAdvance]_vars

(* ============================== claims ================================= *)
RowsOf(d) == {r \in Range(table) : r.documentId = d}
IndexEntriesOf(d) == {e \in vecIndex : e.id[1] = d}

\* C5: an ingestFile / ingestURL call that fails (at extraction, at an
\* embedding call or at the store write) surfaces the error and leaves the
\* store as it was: no row and no index entry of its document is persisted,
\* and the step on which it fails changes neither table nor index.
C5_FailedIngestPersistsNothing ==
  /\ [](\A p \in Procs : ing[p].pc = "failed" =>
          RowsOf(ing[p].doc) = {} /\ IndexEntriesOf(ing[p].doc) = {})
  /\ [][\A p \in Procs : (ing[p].pc # "failed" /\ ing'[p].pc = "failed") =>
          (table' = table /\ vecIndex' = vecIndex)]_vars

\* one call failed in the store write after writing rows, while another
\* failed before reaching the store
C5_Witness ==
  \E p, q \in Procs :
    /\ ing[p].pc = "failed" /\ ing[p].written >= 1
    /\ ing[q].pc = "failed" /\ ing[q].written = 0 /\ ing[q].chunks # <<>>

\* C6: in every state a reader or writer can observe, the chunk set of a
\* document is stored whole or not at all: getChunksByDocumentId returns
\* either nothing or all totalChunks chunks of the set.
C6_AddChunksAtomic ==
  \A d \in DocIds :
    LET got == getChunksByDocumentId(d)
    IN got = <<>> \/ \A i \in 1..Len(got) : got[i].metadata.totalChunks = Len(got)

\* a write failed part-way through its set while another document is stored
C6_Witness ==
  \E p \in Procs :
    /\ ing[p].pc = "failed"
    /\ ing[p].written >= 1 /\ ing[p].written < Len(ing[p].chunks)
    /\ table # <<>>

\* C7 (as claimed): once deleteDocument(d) has returned, no row of d is in
\* the primary table, no entry of a chunk of d is in the similarity index,
\* getChunksByDocumentId(d) is empty and no search result is a chunk of d.
C7_DeleteEmptiesTableAndIndex ==
  \A d \in deleted :
    /\ RowsOf(d) = {}
    /\ IndexEntriesOf(d) = {}
    /\ getChunksByDocumentId(d) = <<>>
    /\ search # NoSearch =>
         \A i \in 1..Len(search.results) : search.results[i].chunk.documentId # d

\* the position of a chunk in insertion order
RowId(id) == CHOOSE i \in 1..Len(table) : table[i].id = id

\* the chunks a search is asked to rank, and the score its path gives them
Eligible(s) ==
  {r \in Range(table) :
     /\ IsSome(r.embedding)
     /\ (s.documentIds \in {None, Some({})} \/ r.documentId \in Val(s.documentIds))}
PathScore(s, r) ==
  IF s.path = "vector" THEN Scale - vecDistance(s.queryEmbedding, Val(r.embedding))
  ELSE cosineSimilarity(s.queryEmbedding, DecodeBlob(EncodeBlob(Val(r.embedding))))

\* C9 (as claimed): searchSimilar returns at most topK results in descending
\* score order, equal scores in insertion order of their chunks, and they are
\* the topK highest-scoring chunks among the eligible ones; a call whose
\* query vector has the store's dimension does return.
C9_SearchOrderedTopK ==
  /\ search.path = "throws" => Len(search.queryEmbedding) # embeddingDimension
  /\ search.path \in {"vector", "cosine"} =>
    LET res == search.results
        ids == {res[i].chunk.id : i \in 1..Len(res)}
    IN /\ Len(res) <= search.topK
       /\ \A i, j \in 1..Len(res) : i < j => res[i].score >= res[j].score
       /\ \A i, j \in 1..Len(res) :
            (i < j /\ res[i].score = res[j].score) =>
               RowId(res[i].chunk.id) < RowId(res[j].chunk.id)
       /\ Len(res) = Min(search.topK, Cardinality(Eligible(search)))
       /\ \A r \in Eligible(search) : r.id \notin ids =>
            \A i \in 1..Len(res) : res[i].score >= PathScore(search, r)

\* C10 (as claimed): every result of searchSimilar, on either path, has a
\* score in [0,1] and distance = 1 - score.
C10_ScoreInUnitInterval ==
  search.path \in {"vector", "cosine"} =>
    \A i \in 1..Len(search.results) :
      /\ 0 <= search.results[i].score /\ search.results[i].score <= Scale
      /\ search.results[i].distance = Scale - search.results[i].score

\* C2 (as claimed): every claim of a response generateEvidenceTracedResponse
\* returns has at least one evidence pointer; a reply with a claim whose
\* evidencePointers is empty is never accepted.
C2_EveryClaimHasPointer ==
  gen.status \in {"success", "degraded"} =>
    \A i \in 1..Len(Val(gen.result).claims) :
       Len(Val(gen.result).claims[i].evidencePointers) >= 1

\* C3 (as claimed): generateEvidenceTracedResponse never raises, whatever the
\* retry ceiling (0 included) and the replies; when every attempt fails it
\* returns the one canonical degraded response.
C3_NeverRaises ==
  /\ gen.status # "raised"
  /\ (gen.status \in {"success", "degraded"} /\ gen.failed = gen.calls) =>
        (gen.status = "degraded" /\ gen.result = Some(DegradedResponse))

\* C4: the retry protocol.  The model is invoked at most retries times; an
\* attempt leads to Success, to the next attempt or to Degraded and nowhere
\* else; Success holds the validated reply of the last attempt; Degraded is
\* entered after exactly retries failed attempts; after Success or Degraded
\* the model is not invoked again and the result does not change.
C4_RetryProtocol ==
  /\ [](/\ gen.calls <= gen.retries
        /\ gen.status = "success" =>
             /\ gen.reply.kind = "text" /\ IsSome(gen.reply.json)
             /\ SchemaAccepts(Val(gen.reply.json))
             /\ gen.result = Some(SchemaParse(Val(gen.reply.json)))
             /\ gen.calls = gen.failed + 1
        /\ gen.status = "degraded" =>
             /\ gen.calls = gen.retries /\ gen.failed = gen.retries
             /\ gen.result = Some(DegradedResponse))
  /\ [][/\ gen.status = "attempting" =>
             \/ gen'.status \in {"success", "degraded"}
             \/ gen'.status = "attempting" /\ gen'.attempt = gen.attempt + 1
        /\ gen.status \in {"success", "degraded"} => gen' = NoGen]_gen

\* a call that succeeded on a retry
C4_Witness == gen.status = "success" /\ gen.failed >= 1

\* the retrieved chunks of the query in progress that reach the threshold
AboveThreshold ==
  {i \in 1..Len(qry.retrieved) : qry.retrieved[i].score >= confidenceThreshold}

\* C1: a query none of whose retrieved chunks has score >= confidenceThreshold
\* (the empty store included) returns the no-evidence response: no claim,
\* overallConfidence 0, the summary "No relevant evidence found ...", no
\* retrieved chunk; and the generative model is invoked in no step of a query
\* unless some retrieved chunk reaches the threshold.
C1_NoEvidenceShortCircuit ==
  /\ []((qry.pc = "done" /\ AboveThreshold = {}) =>
          /\ qry.response = Some(NoEvidenceResponse)
          /\ Val(qry.response).claims = <<>>
          /\ Val(qry.response).overallConfidence = 0
          /\ qry.retrievedChunks = <<>>
          /\ qry.genCalls = 0 /\ gen = NoGen)
  /\ [][(gen' # gen /\ gen'.status # "idle") =>
          (qry'.pc = "generating" /\ qry'.retrieved # <<>>
           /\ \E i \in 1..Len(qry'.retrieved) :
                qry'.retrieved[i].score >= confidenceThreshold)]_vars

\* a query answered by the short circuit although the search returned chunks
C1_Witness ==
  /\ qry.pc = "done" /\ qry.retrieved # <<>> /\ AboveThreshold = {}
  /\ qry.response = Some(NoEvidenceResponse)

\* C8 (as claimed): reconciliation only fills in missing fields: each of
\* page, lineStart, lineEnd and snippet the reply carried has the same value
\* in the returned response, and a pointer whose source matches no context
\* chunk is returned unchanged.
C8_ReconciliationOnlyFills ==
  (qry.pc = "done" /\ IsSome(qry.raw)) =>
    \A i \in 1..Len(Val(qry.raw).claims) :
      \A j \in 1..Len(Val(qry.raw).claims[i].evidencePointers) :
        LET before == Val(qry.raw).claims[i].evidencePointers[j]
            after == Val(qry.response).claims[i].evidencePointers[j]
            context == ContextChunks(qry)
        IN /\ IsSome(before.page) => after.page = before.page
           /\ IsSome(before.lineStart) => after.lineStart = before.lineStart
           /\ IsSome(before.lineEnd) => after.lineEnd = before.lineEnd
           /\ IsSome(before.snippet) => after.snippet = before.snippet
           /\ after.sourcePathOrUrl = before.sourcePathOrUrl
           /\ (\A k \in 1..Len(context) :
                 context[k].chunk.metadata.sourcePathOrUrl # before.sourcePathOrUrl)
              => after = before

\* do all, or none, of the chunks carry an embedding
AllOrNoneEmbedded(chunks) ==
  \/ \A k \in 1..Len(chunks) : IsSome(chunks[k].embedding)
  \/ \A k \in 1..Len(chunks) : chunks[k].embedding = None

\* C11: generateEmbeddings is all-or-nothing.  Once any embedding call of
\* the operation has failed, the operation has failed and returns no list,
\* whatever batches had completed; the ingestion that called it fails with
\* no embedding attached, and the chunks of an ingestion carry embeddings
\* on all of them or on none.
C11_EmbeddingsAllOrNothing ==
  /\ [](emb.failedCalls > 0 => (emb.pc = "failed" /\ emb.returned = None))
  /\ [](\A p \in Procs : AllOrNoneEmbedded(ing[p].chunks))
  /\ [][(emb.failedCalls > 0 /\ emb'.pc = "idle") =>
          (ing'[1].pc = "failed" /\ ing'[1].chunks = ing[1].chunks)]_vars

\* a call of the second batch failed after the first batch had completed
C11_Witness ==
  /\ emb.pc = "failed" /\ emb.failedCalls > 0
  /\ Len(emb.results) = batchSize /\ emb.i = batchSize

\* C12: a generateEmbeddings call that succeeds on n texts returns n
\* results, result i being the embedding of text i, in whatever order the
\* dispatched calls completed; the ingestion attaches to chunk i the
\* embedding of its own content.
C12_EmbeddingsInInputOrder ==
  /\ emb.pc = "returned" =>
       /\ Len(Val(emb.returned)) = Len(emb.texts)
       /\ \A k \in 1..Len(emb.texts) :
            /\ Val(emb.returned)[k].prompt = emb.texts[k]
            /\ Val(emb.returned)[k].embedding = ServiceEmbedding(emb.texts, emb.texts[k])
  /\ ing[1].pc = "embedded" =>
       \A k \in 1..Len(ing[1].chunks) :
          ing[1].chunks[k].embedding =
            Some(ServiceEmbedding(Texts(ing[1].chunks), ing[1].chunks[k].content))

\* two batches returned, calls having completed out of index order
C12_Witness ==
  /\ emb.pc = "returned" /\ emb.outOfOrder
  /\ Len(emb.texts) > batchSize /\ Len(Val(emb.returned)) = Len(emb.texts)

\* C13: the chunks chunkText returns have chunkIndex 0, 1, ..., n-1 in
\* order, and metadata.totalChunks of every chunk is n, their number.
C13_ChunkIndexAndTotal ==
  chk.pc = "done" =>
    \A k \in 1..Len(chk.chunks) :
      /\ chk.chunks[k].chunkIndex = k - 1
      /\ chk.chunks[k].metadata.totalChunks = Len(chk.chunks)

\* a text chunked into three chunks or more
C13_Witness == chk.pc = "done" /\ Len(chk.chunks) >= 3

\* C14 (as claimed): every chunk but the last, unless it is one sentence
\* longer than chunkSize, has a length from minChunkSize to chunkSize.
C14_ChunkLengthInRange ==
  chk.pc = "done" =>
    \A k \in 1..(Len(chk.chunks) - 1) :
      LET content == chk.chunks[k].content
      IN \/ /\ Len(content) > chk.config.chunkSize
            /\ \E i \in 1..Len(splitIntoSentences(chk.text)) :
                 splitIntoSentences(chk.text)[i] = content
         \/ /\ Len(content) >= chk.config.minChunkSize
            /\ Len(content) <= chk.config.chunkSize

\* a chunk without the overlap prefix it shares with its predecessor
WithoutOverlap(chunks, config, k) ==
  IF k = 1 THEN chunks[k].content
  ELSE LET overlapText == getOverlapText(chunks[k - 1].content, config)
           content == chunks[k].content
       IN IF overlapText = "" THEN content
          ELSE SubSeq(content, Len(overlapText) + 2, Len(content))

\* C15 (as claimed): the chunks in chunkIndex order, each without its
\* overlap prefix, joined, are the sentences of the text in their order:
\* none is missing and none is out of place.
C15_ChunksReconstructText ==
  chk.pc = "done" =>
    Join([k \in 1..Len(chk.chunks) |-> WithoutOverlap(chk.chunks, chk.config, k)], " ")
      = Join(splitIntoSentences(chk.text), " ")

\* the place of a chunk among the candidates given to rerank
CandidatePosition(r) ==
  CHOOSE j \in 1..Len(qry.filtered) : qry.filtered[j].chunk.id = r.chunk.id

\* C16: rerank never fails the request.  Without a reranker model, and when
\* a reranker call fails, the reranked list is the candidates in descending
\* order of their existing score cut to topK, each with its original score
\* (no score of the reranker is kept, candidates of equal score in the order
\* they were given), and query goes on to generation.
C16_RerankFallsBack ==
  /\ []((qry.pc \in {"generating", "done"} /\ qry.rerankMode \in {"noModel", "failed"}) =>
          LET out == Val(qry.reranked)
              k == OrDefault(qry.rerankK, rerankTopK)
          IN /\ Len(out) = Min(k, Len(qry.filtered))
             /\ \A i \in 1..Len(out) : \E j \in 1..Len(qry.filtered) : out[i] = qry.filtered[j]
             /\ \A i, j \in 1..Len(out) : i < j =>
                  (out[i].score >= out[j].score /\ out[i].chunk.id # out[j].chunk.id)
             /\ \A j \in 1..Len(qry.filtered) :
                  (\A i \in 1..Len(out) : out[i].chunk.id # qry.filtered[j].chunk.id) =>
                     \A i \in 1..Len(out) :
                        \/ out[i].score > qry.filtered[j].score
                        \/ /\ out[i].score = qry.filtered[j].score
                           /\ CandidatePosition(out[i]) < j
             /\ \A i, j \in 1..Len(out) :
                  (i < j /\ out[i].score = out[j].score) =>
                     CandidatePosition(out[i]) < CandidatePosition(out[j]))
  /\ [][qry.pc = "reranking" =>
          (qry'.pc = "generating" /\ IsSome(qry'.reranked) /\ gen'.status = "attempting")]_vars

\* a reranker call failed with two candidates to rerank
C16_Witness ==
  qry.pc = "generating" /\ qry.rerankMode = "failed" /\ Len(qry.filtered) >= 2

\* the files of the request in progress already recorded, in recording order
Recorded(b) == {b.results[k].file : k \in 1..Len(b.results)}
                 \cup {b.errors[k].file : k \in 1..Len(b.errors)}

\* C17: batch ingestion takes the files one at a time in order; a file that
\* fails is recorded and the files after it are still ingested; a file
\* recorded as success has all its chunks stored and nothing is stored for
\* a file recorded as error.
C17_BatchContinuesAllOrNothing ==
  /\ batch.pc = "loop" =>
       /\ Recorded(batch) = 1..(batch.i - 1)
       /\ Len(batch.results) + Len(batch.errors) = batch.i - 1
       /\ ing[1].pc # "idle" => batch.i <= batch.files
  /\ batch.pc = "responded" =>
       /\ Recorded(batch) = 1..batch.files
       /\ Len(batch.results) + Len(batch.errors) = batch.files
  /\ batch.pc \in {"loop", "responded"} =>
       /\ \A k, l \in 1..Len(batch.results) :
            k < l => batch.results[k].file < batch.results[l].file
       /\ \A k, l \in 1..Len(batch.errors) :
            k < l => batch.errors[k].file < batch.errors[l].file
       /\ \A k \in 1..Len(batch.results) :
            LET r == batch.results[k]
            IN /\ Cardinality(RowsOf(r.documentId)) = r.chunksProcessed
               /\ Len(getChunksByDocumentId(r.documentId)) = r.chunksProcessed
       /\ \A k \in 1..Len(batch.errors) :
            /\ RowsOf(batch.errors[k].doc) = {}
            /\ IndexEntriesOf(batch.errors[k].doc) = {}

\* a batch whose first file failed and whose second file was stored
C17_Witness ==
  /\ batch.pc = "responded"
  /\ Len(batch.errors) >= 1 /\ Len(batch.results) >= 1
  /\ batch.errors[1].file < batch.results[1].file
  /\ batch.results[1].chunksProcessed >= 1

\* C18: query is read-only with respect to the store: no step of a query,
\* whether it short-circuits, succeeds or fails, changes the stored rows
\* (content, metadata, embeddings) or the index.
C18_QueryReadOnly ==
  [][(qry' # qry \/ gen' # gen) => (table' = table /\ vecIndex' = vecIndex)]_vars

\* a query over a non-empty store has returned retrieved chunks
C18_Witness ==
  qry.pc = "done" /\ Len(qry.retrievedChunks) >= 1 /\ table # <<>>

\* C19: when ingestFile / ingestURL succeeds, chunksProcessed equals
\* embeddingsGenerated and the number of rows stored under the returned
\* documentId, each of which has an embedding; and in every state reached
\* by ingestions and deletions every stored row has an embedding.
C19_StoredChunksEmbedded ==
  /\ \A p \in Procs :
       ing[p].pc = "done" =>
         LET result == IngestionResult(ing[p])
         IN /\ result.chunksProcessed = result.embeddingsGenerated
            /\ Cardinality(RowsOf(result.documentId)) = result.chunksProcessed
            /\ \A r \in RowsOf(result.documentId) : IsSome(r.embedding)
  /\ \A k \in 1..Len(table) : IsSome(table[k].embedding)

\* an ingestion of two chunks has succeeded after a deletion
C19_Witness ==
  /\ ing[1].pc = "done" /\ Len(ing[1].chunks) = 2
  /\ Cardinality(RowsOf(ing[1].doc)) = 2
  /\ deleted # {}

\* between the readings b and a the caller has ingested the document d and
\* then deleted it, and has deleted nothing else
IngestedThenDeleted(b, a, d) ==
  /\ d \notin b.usedDocs
  /\ a.usedDocs = b.usedDocs \cup {d}
  /\ d \notin b.deleted
  /\ a.deleted = b.deleted \cup {d}

\* C20: getDocumentStats reports as documentCount the number of document ids
\* that have at least one stored chunk and as chunkCount the number of stored
\* chunks; both are 0 on an empty store; and a reading taken after a document
\* was ingested and then deleted equals the reading taken before the
\* ingestion.
C20_StatsCountAndRoundTrip ==
  /\ getDocumentStats.documentCount = Cardinality({d \in DocIds : RowsOf(d) # {}})
  /\ getDocumentStats.chunkCount = Cardinality(UNION {RowsOf(d) : d \in DocIds})
  /\ table = <<>> => getDocumentStats = [documentCount |-> 0, chunkCount |-> 0]
  /\ \A i \in 1..Len(stats) : \A j \in i + 1..Len(stats) : \A d \in DocIds :
       IngestedThenDeleted(stats[i], stats[j], d) => stats[j].result = stats[i].result

\* three readings: one document stored, a second one of two chunks ingested,
\* the second one deleted again
C20_Witness ==
  /\ Len(stats) = 3
  /\ stats[1].result.documentCount = 1
  /\ stats[2].result = [documentCount |-> 2,
                        chunkCount |-> stats[1].result.chunkCount + 2]
  /\ \E d \in DocIds : IngestedThenDeleted(stats[1], stats[3], d)
  /\ stats[3].result = stats[1].result

\* C21 (as claimed): the search strategy is the one chosen when the store was
\* constructed: a store constructed without the accelerated index never
\* enters the accelerated search, and every searchSimilar call on a store is
\* answered by the strategy of its construction (the accelerated index when
\* it was loaded, the scan otherwise).
C21_StrategyFixedAtConstruction ==
  search # NoSearch =>
    /\ ~vecAvailable => \A i \in 1..Len(search.attempts) : search.attempts[i] # "vectorSearch"
    /\ vecAvailable => search.attempts = <<"vectorSearch">>

\* C22 (as claimed): the fallback is a working mode.  On a store constructed
\* without the accelerated index an addChunks call does not fail for the
\* lack of it (the ingestion goes on to write its chunks), and a
\* searchSimilar call with a query of the store's dimension is answered by
\* the cosine scan.
C22_FallbackFullyWorking ==
  /\ [][\A p \in Procs :
          (~vecAvailable /\ ing[p].pc = "embedded" /\ ing'[p].pc # "embedded")
             => ing'[p].pc = "writing"]_vars
  /\ []((~vecAvailable /\ search # NoSearch
           /\ Len(search.queryEmbedding) = embeddingDimension)
          => search.path = "cosine")

\* C23 (as claimed): the index mirrors the primary table: every committed
\* row that has an embedding has its entry in the index (a row is never
\* committed without its index entry).
C23_IndexMirrorsTable ==
  \A r \in Range(table) :
     IsSome(r.embedding) => \E e \in vecIndex : e.id = r.id

\* C24: within one generateEmbeddings call at most batchSize (10) embedding
\* calls are in flight; the calls in flight all belong to the batch at i,
\* and while any is awaited every text of the earlier batches has its
\* result; once a call has failed no further call is dispatched.
C24_BatchesSequentialBounded ==
  /\ [](/\ Cardinality(emb.inFlight) <= 10
        /\ emb.inFlight \subseteq (emb.i + 1)..(emb.i + 10)
        /\ emb.pending \subseteq emb.inFlight
        /\ emb.pending # {} => Len(emb.results) = emb.i)
  /\ [][emb.failedCalls > 0 => emb'.inFlight \subseteq emb.inFlight]_vars

\* the second batch is in flight after the first batch of ten has completed
C24_Witness ==
  /\ emb.pc = "awaiting" /\ emb.i = 10
  /\ Len(emb.results) = 10 /\ emb.inFlight = {11}

\* the last n words of a chunk, joined; nothing when n is 0
LastWords(content, n) ==
  LET words == Split(content, Whitespace)
  IN IF n = 0 THEN "" ELSE Join(SubSeq(words, Len(words) - n + 1, Len(words)), " ")

\* does str end with the sentence
EndsWithSentence(str, sentence) ==
  \/ str = sentence
  \/ /\ Len(str) > Len(sentence)
     /\ SubSeq(str, Len(str) - Len(sentence), Len(str)) = " " \o sentence

\* C25 (as claimed): after a chunk of w words the next chunk starts with
\* exactly its last floor(w * chunkOverlap / chunkSize) words, followed by the
\* sentence that comes after the last sentence of the emitted chunk (and by
\* the sentences after it); when that number is 0 the next chunk starts with
\* that sentence.
C25_OverlapIsTrailingWords ==
  chk.pc = "done" =>
    LET sentences == splitIntoSentences(chk.text)
    IN \A k \in 1..Len(chk.chunks) - 1 :
         LET emitted == chk.chunks[k].content
             w == Len(Split(emitted, Whitespace))
             n == (w * chk.config.chunkOverlap) \div chk.config.chunkSize
             overlap == LastWords(emitted, n)
         IN \E a \in 2..Len(sentences) : \E b \in a..Len(sentences) :
              /\ EndsWithSentence(emitted, sentences[a - 1])
              /\ chk.chunks[k + 1].content =
                   overlap \o (IF overlap # "" THEN " " ELSE "")
                           \o Join(SubSeq(sentences, a, b), " ")

\* C26 (as claimed): during query the generative model is invoked at most
\* maxRetries times, maxRetries being the ceiling the client is configured
\* with, and exactly maxRetries times when every attempt fails and the
\* degraded response is returned.
C26_GenerationBoundedByMaxRetries ==
  qry.pc = "generating" =>
    /\ gen.calls <= qry.maxRetries
    /\ gen.status = "degraded" => gen.calls = qry.maxRetries

\* the words a chunk may repeat from the chunk before it: the last
\* floor(w * chunkOverlap / chunkSize) words of that chunk
OverlapPrefix(chunks, config, k) ==
  IF k = 1 THEN ""
  ELSE LET w == Len(Split(chunks[k - 1].content, Whitespace))
       IN LastWords(chunks[k - 1].content, (w * config.chunkOverlap) \div config.chunkSize)

\* C27 (as claimed): a sentence longer than chunkSize is emitted as a chunk
\* of its own: some chunk holds that sentence and nothing else but the
\* overlap words in front of it.
C27_LongSentenceOwnChunk ==
  chk.pc = "done" =>
    LET sentences == splitIntoSentences(chk.text)
    IN \A i \in 1..Len(sentences) :
         Len(sentences[i]) > chk.config.chunkSize =>
           \E k \in 1..Len(chk.chunks) :
              LET prefix == OverlapPrefix(chk.chunks, chk.config, k)
              IN chk.chunks[k].content =
                   prefix \o (IF prefix # "" THEN " " ELSE "") \o sentences[i]

\* the documents of the chunks in a list of results
DocumentsOf(results) == {results[i].chunk.documentId : i \in 1..Len(results)}

\* C28: a searchSimilar call with a non-empty documentIds list returns only
\* chunks of the listed documents, whichever method answers it; and a call
\* with the empty list has the outcome the same call has without a list
\* (query hands its scope to searchSimilar as it is).
C28_FilterRestrictsEmptyMeansAll ==
  /\ (search # NoSearch /\ IsSome(search.documentIds) /\ Val(search.documentIds) # {})
       => DocumentsOf(search.results) \subseteq Val(search.documentIds)
  /\ (search # NoSearch /\ search.documentIds = Some({})) =>
       LET unfiltered == searchSimilar(search.queryEmbedding, search.topK, None)
       IN /\ search.path = unfiltered.path
          /\ search.results = unfiltered.results

\* the store holds chunks of two documents: a call listing one of them has
\* returned chunks of it, and a call with the empty list returns chunks of both
C28_Witness ==
  /\ search # NoSearch
  /\ \E d \in DocIds : search.documentIds = Some({d})
  /\ Len(search.results) > 0
  /\ \E r \in Range(table) : r.documentId \notin Val(search.documentIds)
  /\ Cardinality(DocumentsOf(searchSimilar(<<1, 0>>, 2, Some({})).results)) = 2

\* C29 (as claimed): an ingestion whose text chunks to nothing completes
\* successfully: generateEmbeddings dispatches no embedding call, addChunks
\* does not throw, no step of the ingestion changes the table or the index,
\* and the result reports 0 chunks and 0 embeddings for a documentId that
\* has no stored chunk and is not counted by getDocumentStats.
C29_EmptyIngestionSucceeds ==
  /\ []((emb.pc # "idle" /\ Len(emb.texts) = 0) =>
          (emb.inFlight = {} /\ emb.failedCalls = 0 /\ emb.pc \in {"loop", "returned"}))
  /\ [][(Len(ing[1].chunks) = 0 /\ ing[1].pc \in {"chunked", "embedded", "writing"})
          => /\ table' = table /\ vecIndex' = vecIndex
             /\ ing[1].pc = "embedded" => ing'[1].pc \in {"embedded", "writing"}]_vars
  /\ []((ing[1].pc = "done" /\ Len(ing[1].chunks) = 0) =>
          LET result == IngestionResult(ing[1])
          IN /\ result.chunksProcessed = 0 /\ result.embeddingsGenerated = 0
             /\ RowsOf(result.documentId) = {}
             /\ getDocumentStats.documentCount
                  = Cardinality({d \in DocIds \ {result.documentId} : RowsOf(d) # {}}))

\* C30 (as claimed): the state of an assessment changes only along the
\* transition table, and once it is CANCELLED it never changes again, also
\* with two advance requests in progress at once.
C30_StateFollowsTransitionTable ==
  [][/\ adv'.state # adv.state => adv'.state \in getValidStateTransitions(adv.state)
     /\ adv.state = "CANCELLED" => adv'.state = "CANCELLED"]_vars

====
